---- MODULE Spec2Model ----
(***************************************************************************)
(* A model of funowl/ontology_document.py: the Import node, the Ontology   *)
(* aggregate (grammar-directed constructor, builder methods, functional    *)
(* and RDF rendering) and the OntologyDocument container.                  *)
(*                                                                         *)
(* Python values are records tagged by their class in field k.  Python's   *)
(* None is the record None.  Lists are sequences.                          *)
(***************************************************************************)
EXTENDS Integers, Sequences, FiniteSets, TLC

VARIABLES
    pc,                         \* "new", "constructed" or "raised": the Ontology under study
    args, kwargs,               \* the arguments the constructor was called with
    err,                        \* the exception the last operation raised, or "ok"
    iri, version,               \* Ontology.iri, Ontology.version
    directlyImportsDocuments,   \* Ontology.directlyImportsDocuments
    axioms, annotations,        \* Ontology.axioms, Ontology.annotations
    atInit,                     \* the attributes as the constructor left them
    calls,                      \* the builder calls made so far: [method, element built]
    ret,                        \* what the last operation returned
    lastOp,                     \* the last operation called: its name, and the position in
                                \* directlyImportsDocuments of the Import it was called on (0: none)
    g, gBefore,                 \* the rdflib Graph (a set of triples), and as it was before the last call
    out, outBefore,             \* the FunctionalWriter's output, and as it was before the last call
    nBNodes,                    \* how many BNode() have been generated
    nRenders,                   \* how many rendering calls have been made
    nPrefixCalls,               \* how many prefix declarations have been made on the Document
    docpc,                      \* "new" or "constructed": the OntologyDocument under study
    docArgs,                    \* the arguments its constructor was called with
    prefixDeclarations,         \* OntologyDocument.prefixDeclarations
    ontology                    \* OntologyDocument.ontology

ontVars == <<iri, version, directlyImportsDocuments, axioms, annotations>>
callVars == <<atInit, calls>>
renderVars == <<g, gBefore, out, outBefore, nBNodes, nRenders>>
docVars == <<docpc, docArgs, prefixDeclarations, ontology, nPrefixCalls>>
vars == <<pc, args, kwargs, err, ontVars, callVars, ret, lastOp, renderVars, docVars>>

-----------------------------------------------------------------------------
(* Bounds of the model *)

MaxArgs == 3            \* positional arguments of one Ontology(...) call
MaxBuildArgs == 2       \* the same, where builder calls follow
MaxRenderArgs == 2      \* the same, where rendering follows
MaxKwargs == 2          \* named arguments of one Ontology(...) call
MaxBuilderCalls == 2    \* builder calls on one Ontology
MaxImportsCalls == 1    \* imports(...) calls on an Ontology that is then rendered
MaxRenderCalls == 2     \* rendering calls on one Ontology or Document
MaxDocArgs == 2         \* positional arguments of one OntologyDocument(...) call
MaxPrefixCalls == 2     \* prefix declarations on one Document after construction

-----------------------------------------------------------------------------
(* Values *)

None == [k |-> "None"]

IRI(s) == [k |-> "IRI", s |-> s]
\* an instance of a class deriving from both IRI and Axiom
IRIAxiom(s) == [k |-> "IRIAxiom", s |-> s]
Axiom(s) == [k |-> "Axiom", s |-> s]
Annotation(s) == [k |-> "Annotation", s |-> s]
Other(s) == [k |-> "Other", s |-> s]
Import(w) == [k |-> "Import", iri |-> w]
OntologyObj(i, v, d, x, n) ==
    [k |-> "Ontology", iri |-> i, version |-> v, directlyImportsDocuments |-> d,
     axioms |-> x, annotations |-> n]

\* isinstance(v, IRI), isinstance_(v, Axiom), isinstance(v, Import), isinstance(v, Ontology)
IsIRI(v) == v.k \in {"IRI", "IRIAxiom"}
IsAxiom(v) == v.k \in {"Axiom", "IRIAxiom"}
IsImport(v) == v.k = "Import"
IsOntology(v) == v.k = "Ontology"

Op(name, on) == [op |-> name, on |-> on]

\* a reference to the Ontology under study (what "return self" returns)
Self == [k |-> "ref", to |-> "self"]

\* Python truthiness of an attribute that holds None or an object
Truthy(v) == v # None

-----------------------------------------------------------------------------
(* Ontology.__init__ *)

\* the names getattr(self, k, MISSING) finds besides the instance attributes:
\* the methods the class body defines
MethodNames ==
    {"annotation", "declaration", "subClassOf", "equivalentClasses",
     "subObjectPropertyOf", "inverseObjectProperties", "functionalObjectProperty",
     "inverseFunctionalObjectProperty", "objectPropertyDomain", "objectPropertyRange",
     "imports", "to_functional", "to_rdf"}

IsIriNotAxiomHead(a) == a # <<>> /\ IsIRI(Head(a)) /\ ~IsAxiom(Head(a))

\* lines 59-62: "if args and isinstance(args[0], IRI) and not isinstance_(args[0], Axiom): ... args.pop(0)"
\* the attribute keeps the class default None when the test fails
PopIri(a) ==
    IF IsIriNotAxiomHead(a) THEN [v |-> Head(a), rest |-> Tail(a)]
    ELSE [v |-> None, rest |-> a]

\* lines 64-65: while args and isinstance(args[0], Import): append(args.pop(0))
RECURSIVE PopImports(_, _)
PopImportsFront(acc, a) ==
    IF a # <<>> /\ IsImport(Head(a)) THEN PopImports(<<Head(a)>> \o acc, Tail(a))
    ELSE [v |-> acc, rest |-> a]
PopImports(acc, a) ==
    IF a # <<>> /\ IsImport(Head(a)) THEN PopImports(Append(acc, Head(a)), Tail(a))
    ELSE [v |-> acc, rest |-> a]

\* lines 67-68: while args and isinstance_(args[0], Axiom): append(args.pop(0))
RECURSIVE PopAxioms(_, _)
PopAxioms(acc, a) ==
    IF a # <<>> /\ IsAxiom(Head(a)) THEN PopAxioms(Append(acc, Head(a)), Tail(a))
    ELSE [v |-> acc, rest |-> a]

\* the value a named argument carries
KwValue(e) == IF e.t = "list" THEN e.v ELSE e.v[1]

\* kwargs.get('annotations', [])
RECURSIVE KwargsGet(_, _, _)
KwargsGet(kw, name, dflt) ==
    IF kw = <<>> THEN dflt
    ELSE IF Head(kw).name = name THEN KwValue(Head(kw))
    ELSE KwargsGet(Tail(kw), name, dflt)

\* the Python type of getattr(self, k, MISSING)
AttrType(self, k) ==
    IF k \in {"directlyImportsDocuments", "axioms", "annotations"} THEN "list"
    ELSE IF k \in {"iri", "version"} THEN (IF self[k] = None THEN "NoneType" ELSE "IRI")
    ELSE IF k \in MethodNames THEN "method"
    ELSE "MISSING"

\* lines 70-77: the loop over kwargs.items(), stopping at the first exception
RECURSIVE ApplyKwargs(_, _)
ApplyKwargs(self, kw) ==
    IF kw = <<>> THEN [err |-> "ok", self |-> self]
    ELSE LET k == Head(kw).name
             v == KwValue(Head(kw))
             t == AttrType(self, k)
         IN  IF t = "MISSING" THEN [err |-> "UnknownField", self |-> self]
             ELSE IF t = "NoneType" THEN ApplyKwargs([self EXCEPT ![k] = v], Tail(kw))
             ELSE IF k # "annotations"
                  THEN \* cur_v + v: list + list concatenates; a bound method or an
                       \* IRI (a dataclass that defines no addition) raises TypeError
                       IF t = "list" /\ Head(kw).t = "list"
                       THEN ApplyKwargs([self EXCEPT ![k] = self[k] \o v], Tail(kw))
                       ELSE [err |-> "TypeError", self |-> self]
             ELSE ApplyKwargs(self, Tail(kw))

\* lines 79-80, after the loop
CheckRestSkipped(r, rest) == r
CheckRest(r, rest) ==
    IF r.err # "ok" THEN r
    ELSE IF rest # <<>> THEN [err |-> "UnrecognizedArgument", self |-> r.self]
    ELSE r

Ontology_init(a, kw) ==
    LET p1 == PopIri(a)
        p2 == PopIri(p1.rest)
        p3 == PopImports(<<>>, p2.rest)
        p4 == PopAxioms(<<>>, p3.rest)
        self == OntologyObj(p1.v, p2.v, p3.v, p4.v, KwargsGet(kw, "annotations", <<>>))
    IN  CheckRest(ApplyKwargs(self, kw), p4.rest)

-----------------------------------------------------------------------------
(* Inputs of the constructor *)

PosValues ==
    {IRI("a"), IRI("b"), Import(IRI("a")), Import(IRI("b")), Axiom("x"), Axiom("y"),
     IRIAxiom("c"), Other("z")}

\* one named argument: its name, the Python type of its value, and the value
\* (field v holds the list itself, or the one IRI in a one-element sequence)
KwValues ==
    {[name |-> "iri", t |-> "IRI", v |-> <<IRI("b")>>],
     [name |-> "version", t |-> "IRI", v |-> <<IRI("v")>>],
     [name |-> "directlyImportsDocuments", t |-> "list", v |-> <<Import(IRI("c"))>>],
     [name |-> "axioms", t |-> "list", v |-> <<Axiom("z")>>],
     [name |-> "annotations", t |-> "list", v |-> <<Annotation("n")>>],
     [name |-> "imports", t |-> "list", v |-> <<Import(IRI("c"))>>],
     [name |-> "foo", t |-> "IRI", v |-> <<IRI("b")>>],
     [name |-> "foo", t |-> "list", v |-> <<Axiom("z")>>]}

SeqsUpTo(S, n) == UNION {[1..m -> S] : m \in 0..n}

\* a dict has each key once
DistinctNames(kw) == \A i, j \in DOMAIN kw : i # j => kw[i].name # kw[j].name

ArgLists == SeqsUpTo(PosValues, MaxArgs)
KwargDicts == {kw \in SeqsUpTo(KwValues, MaxKwargs) : DistinctNames(kw)}

-----------------------------------------------------------------------------
(* State *)

InitOnt ==
    /\ pc = "new"
    /\ err = "ok"
    /\ iri = None /\ version = None
    /\ directlyImportsDocuments = <<>> /\ axioms = <<>> /\ annotations = <<>>
    /\ atInit = None
    /\ calls = <<>>
    /\ ret = None
    /\ lastOp = Op("none", 0)
    /\ g = {} /\ gBefore = {}
    /\ out = <<>> /\ outBefore = <<>>
    /\ nBNodes = 0
    /\ nRenders = 0

InitDoc ==
    /\ docpc = "new"
    /\ docArgs = [prefix |-> <<>>, ontology |-> None]
    /\ nPrefixCalls = 0
    /\ prefixDeclarations = <<>>
    /\ ontology = None

\* the call Ontology(*args, **kwargs) about to be made
InitCall == args \in ArgLists /\ kwargs \in KwargDicts /\ InitOnt /\ InitDoc

\* the attribute of the Ontology under study of that name
Self_attr(name) ==
    [iri |-> iri, version |-> version, directlyImportsDocuments |-> directlyImportsDocuments,
     axioms |-> axioms, annotations |-> annotations][name]

\* o = Ontology(*args, **kwargs): the object exists only when __init__ returns
NewOntology ==
    /\ pc = "new"
    /\ LET r == Ontology_init(args, kwargs)
       IN  /\ err' = r.err
           /\ lastOp' = Op("Ontology", 0)
           /\ IF r.err = "ok"
              THEN /\ pc' = "constructed"
                   /\ iri' = r.self.iri /\ version' = r.self.version
                   /\ directlyImportsDocuments' = r.self.directlyImportsDocuments
                   /\ axioms' = r.self.axioms /\ annotations' = r.self.annotations
                   /\ atInit' = r.self
                   /\ ret' = Self
              ELSE /\ pc' = "raised"
                   /\ ret' = None
                   /\ UNCHANGED <<ontVars, atInit>>
    /\ UNCHANGED <<args, kwargs, calls, renderVars, docVars>>

NextInit == NewOntology

SpecInit == InitCall /\ [][NextInit]_vars

-----------------------------------------------------------------------------
(* The constructor's contract, stated over the call's arguments *)

DeclaredSlots == {"iri", "version", "directlyImportsDocuments", "axioms", "annotations"}

IsIdentifier(v) == IsIRI(v) /\ ~IsAxiom(v)

\* the ways to cut a into [identifier [version]] imports axioms:
\* <<i, j, m>> = how many values the identifier, version and import slots take
Cuts(a) ==
    {c \in (0..1) \X (0..1) \X (0..Len(a)) :
        /\ c[2] <= c[1]
        /\ c[1] + c[2] + c[3] <= Len(a)
        /\ \A p \in 1..(c[1] + c[2]) : IsIdentifier(a[p])
        /\ \A p \in (c[1] + c[2] + 1)..(c[1] + c[2] + c[3]) : IsImport(a[p])
        /\ \A p \in (c[1] + c[2] + c[3] + 1)..Len(a) : IsAxiom(a[p])}

\* no positional value remains after the four slots took their prefixes
Grammatical(a) == Cuts(a) # {}

\* the values the named field of that name carries (none when it is not given)
Named(name) ==
    IF \E p \in DOMAIN kwargs : kwargs[p].name = name
    THEN (CHOOSE e \in {kwargs[p] : p \in DOMAIN kwargs} : e.name = name).v
    ELSE <<>>

Opt(x) == IF x = None THEN <<>> ELSE <<x>>

\* C1: when the constructor accepts its arguments and every named field names a
\* declared slot, the slots read back (identifier, version, imports, axioms) as
\* consecutive pieces of the positional sequence, in order, each followed by the
\* values of the named field of that slot; a positional version needs a
\* positional identifier.
C1_SlotsReadBack ==
    (pc = "constructed" /\ \A p \in DOMAIN kwargs : kwargs[p].name \in DeclaredSlots) =>
        \E c \in (0..1) \X (0..1) \X (0..Len(args)) :
            /\ c[2] = 1 => c[1] = 1
            /\ c[1] + c[2] + c[3] <= Len(args)
            /\ Opt(iri) = SubSeq(args, 1, c[1]) \o Named("iri")
            /\ Opt(version) = SubSeq(args, c[1] + 1, c[1] + c[2]) \o Named("version")
            /\ directlyImportsDocuments =
                   SubSeq(args, c[1] + c[2] + 1, c[1] + c[2] + c[3])
                       \o Named("directlyImportsDocuments")
            /\ axioms = SubSeq(args, c[1] + c[2] + c[3] + 1, Len(args)) \o Named("axioms")

\* an identifier, an import and an axiom were accepted together with a named
\* list of imports and a named list of axioms
C1_Witness ==
    /\ pc = "constructed"
    /\ args = <<IRI("a"), Import(IRI("b")), Axiom("x")>>
    /\ directlyImportsDocuments = <<Import(IRI("b")), Import(IRI("c"))>>
    /\ axioms = <<Axiom("x"), Axiom("z")>>

\* a named field that is not applied as given: it names no declared slot, or
\* it names the identifier or version slot that a positional value already filled
NamedFieldFails ==
    \E p \in DOMAIN kwargs :
        \/ kwargs[p].name \notin DeclaredSlots
        \/ kwargs[p].name = "iri" /\ Len(args) >= 1 /\ IsIdentifier(args[1])
        \/ kwargs[p].name = "version" /\ Len(args) >= 2
               /\ IsIdentifier(args[1]) /\ IsIdentifier(args[2])

\* C2 as stated: whenever a positional value remains, construction fails with
\* UnrecognizedArgument and returns no object.
C2_LeftoverRaisesUnrecognized ==
    (pc # "new" /\ ~Grammatical(args)) =>
        (pc = "raised" /\ ret = None /\ err = "UnrecognizedArgument")

\* C2 amended: whenever a positional value remains, construction fails and
\* returns no object; the failure is UnrecognizedArgument when every named
\* field is applied without failure (named fields are applied before the
\* leftover check, so a named field's failure is the one raised).
C2_LeftoverRaises ==
    (pc # "new" /\ ~Grammatical(args)) =>
        /\ pc = "raised" /\ ret = None
        /\ err # "ok"
        /\ ~NamedFieldFails => err = "UnrecognizedArgument"

\* an import after an axiom, with a well-formed named field, was rejected
C2_Witness ==
    /\ pc = "raised"
    /\ args = <<IRI("a"), Axiom("x"), Import(IRI("a"))>>
    /\ Len(kwargs) = 1 /\ kwargs[1].name = "axioms"
    /\ err = "UnrecognizedArgument"

\* C3 as stated: a named field that names no declared slot makes construction
\* fail with UnknownField, whatever the other arguments are.
C3_UnknownFieldRaises ==
    (pc # "new" /\ \E p \in DOMAIN kwargs : kwargs[p].name \notin DeclaredSlots) =>
        (pc = "raised" /\ err = "UnknownField")

-----------------------------------------------------------------------------
(* Ontology: the builder methods, lines 86-137 *)

\* self.axioms.append(elt); return self
AppendAxiomFront(method, elt) ==
    /\ axioms' = <<elt>> \o axioms
    /\ calls' = Append(calls, [method |-> method, element |-> elt])
    /\ ret' = Self
    /\ UNCHANGED <<iri, version, directlyImportsDocuments, annotations>>
AppendAxiom(method, elt) ==
    /\ axioms' = Append(axioms, elt)
    /\ calls' = Append(calls, [method |-> method, element |-> elt])
    /\ ret' = Self
    /\ UNCHANGED <<iri, version, directlyImportsDocuments, annotations>>

\* what every builder call leaves alone, and when one can be made
Builder(method) ==
    /\ pc = "constructed"
    /\ Len(calls) < MaxBuilderCalls
    /\ lastOp' = Op(method, 0)
    /\ err' = "ok"
    /\ UNCHANGED <<pc, args, kwargs, atInit, renderVars, docVars>>

\* the operands the builders are called with
Operands == {"A", "B"}

\* the axiom a builder constructs from its operands
Built(class, operands) == [k |-> "Axiom", s |-> class, of |-> operands]

\* lines 86-88
annotation ==
    /\ Builder("annotation")
    /\ \E prop \in {"p"}, value \in Operands :
        /\ annotations' = Append(annotations, [k |-> "Annotation", s |-> prop, of |-> <<value>>])
        /\ calls' = Append(calls, [method |-> "annotation",
                                   element |-> [k |-> "Annotation", s |-> prop, of |-> <<value>>]])
        /\ ret' = Self
        /\ UNCHANGED <<iri, version, directlyImportsDocuments, axioms>>

\* lines 90-92
declaration ==
    Builder("declaration") /\ \E decl \in Operands :
        AppendAxiom("declaration", Built("Declaration", <<decl>>))

\* lines 94-96
subClassOf ==
    Builder("subClassOf") /\ \E sub \in {"A"}, sup \in {"B"} :
        AppendAxiom("subClassOf", Built("SubClassOf", <<sub, sup>>))

\* lines 98-100
equivalentClasses ==
    Builder("equivalentClasses") /\ \E classExpressions \in {<<"A", "B">>} :
        AppendAxiom("equivalentClasses", Built("EquivalentClasses", classExpressions))

\* lines 102-107
subObjectPropertyOf ==
    Builder("subObjectPropertyOf") /\ \E sub \in {"A"}, sup \in {"B"} :
        AppendAxiom("subObjectPropertyOf", Built("SubObjectPropertyOf", <<sub, sup>>))

\* lines 109-114
inverseObjectProperties ==
    Builder("inverseObjectProperties") /\ \E exp1 \in {"A"}, exp2 \in {"B"} :
        AppendAxiom("inverseObjectProperties", Built("InverseObjectProperties", <<exp1, exp2>>))

\* lines 116-119
functionalObjectProperty ==
    Builder("functionalObjectProperty") /\ \E ope \in {"A"} :
        AppendAxiom("functionalObjectProperty", Built("FunctionalObjectProperty", <<ope>>))

\* lines 121-124
inverseFunctionalObjectProperty ==
    Builder("inverseFunctionalObjectProperty") /\ \E ope \in {"A"} :
        AppendAxiom("inverseFunctionalObjectProperty",
                    Built("InverseFunctionalObjectProperty", <<ope>>))

\* lines 126-128
objectPropertyDomain ==
    Builder("objectPropertyDomain") /\ \E ope \in {"A"}, ce \in {"B"} :
        AppendAxiom("objectPropertyDomain", Built("ObjectPropertyDomain", <<ope, ce>>))

\* lines 130-132
objectPropertyRange ==
    Builder("objectPropertyRange") /\ \E ope \in {"A"}, ce \in {"B"} :
        AppendAxiom("objectPropertyRange", Built("ObjectPropertyRange", <<ope, ce>>))

\* the values imports(...) is called with: a string, an Ontology that has an
\* identifier, an Ontology that has none
ImportsInputs ==
    {[k |-> "str", s |-> "c"],
     OntologyObj(IRI("d"), None, <<>>, <<>>, <<>>),
     OntologyObj(None, None, <<>>, <<>>, <<>>)}

\* line 136: Import(import_.iri if isinstance(import_, Ontology) else IRI(str(import_)))
ImportOf(import_) ==
    Import(IF IsOntology(import_) THEN import_.iri ELSE IRI(import_.s))

\* lines 134-137
AppendImport(import_) ==
    /\ directlyImportsDocuments' = Append(directlyImportsDocuments, ImportOf(import_))
    /\ calls' = Append(calls, [method |-> "imports", element |-> ImportOf(import_)])
    /\ ret' = Self
    /\ UNCHANGED <<iri, version, axioms, annotations>>

imports == Builder("imports") /\ \E import_ \in ImportsInputs : AppendImport(import_)

BuildValues == {IRI("a"), Import(IRI("b")), Axiom("x")}
BuildKwValues == {[name |-> "annotations", t |-> "list", v |-> <<Annotation("n")>>]}

InitBuild ==
    /\ args \in SeqsUpTo(BuildValues, MaxBuildArgs)
    /\ kwargs \in SeqsUpTo(BuildKwValues, 1)
    /\ InitOnt /\ InitDoc

NextBuild ==
    \/ NewOntology
    \/ annotation
    \/ declaration
    \/ subClassOf
    \/ equivalentClasses
    \/ subObjectPropertyOf
    \/ inverseObjectProperties
    \/ functionalObjectProperty
    \/ inverseFunctionalObjectProperty
    \/ objectPropertyDomain
    \/ objectPropertyRange
    \/ imports

SpecBuild == InitBuild /\ [][NextBuild]_vars

\* the list a builder method adds to
ListOf(method) ==
    IF method = "annotation" THEN "annotations"
    ELSE IF method = "imports" THEN "directlyImportsDocuments"
    ELSE "axioms"

\* the elements the builder calls made so far were to add to that list, in call order
RECURSIVE AddedTo(_, _)
AddedTo(list, cs) ==
    IF cs = <<>> THEN <<>>
    ELSE (IF ListOf(Head(cs).method) = list THEN <<Head(cs).element>> ELSE <<>>)
             \o AddedTo(list, Tail(cs))

\* C7: after any sequence of builder calls the identifier and the version are
\* as constructed, each of the three lists is its content at construction
\* followed by the elements the calls added to it, in call order (one element
\* per call, in the list of that builder), and each call returned the aggregate.
C7_BuildersAppend ==
    pc = "constructed" =>
        /\ iri = atInit.iri /\ version = atInit.version
        /\ \A list \in {"directlyImportsDocuments", "axioms", "annotations"} :
               Self_attr(list) = atInit[list] \o AddedTo(list, calls)
        /\ Len(directlyImportsDocuments) + Len(axioms) + Len(annotations) =
               Len(atInit.directlyImportsDocuments) + Len(atInit.axioms)
                   + Len(atInit.annotations) + Len(calls)
        /\ ret = Self

\* two builder calls were made on an aggregate constructed with an axiom
C7_Witness ==
    /\ pc = "constructed"
    /\ Len(calls) = 2
    /\ calls[1].method = "declaration" /\ calls[2].method = "subClassOf"
    /\ Len(atInit.axioms) = 1
    /\ Len(axioms) = 3

-----------------------------------------------------------------------------
(* RDF rendering *)

URIRef(s) == [k |-> "URIRef", s |-> s]
BNode(n) == [k |-> "BNode", id |-> n]

RDF_type == URIRef("rdf:type")
OWL_Ontology == URIRef("owl:Ontology")
OWL_versionIRI == URIRef("owl:versionIRI")
OWL_imports == URIRef("owl:imports")

\* str(x): the text of an identifier, "None" for None
Str(x) == IF x = None THEN "None" ELSE x.s

\* IRI.to_rdf(g) and IRI.full_uri(g): the identifier's resource
IRI_to_rdf(i) == URIRef(i.s)
IRI_full_uri(i) == i.s

\* lines 39-40: self.iri if isinstance(self.iri, IRI) else self.iri.iri
\* (None has no attribute iri)
Import_ontology_iri(self) ==
    IF IsIRI(self.iri) THEN [err |-> "ok", v |-> self.iri]
    ELSE IF self.iri = None THEN [err |-> "AttributeError", v |-> None]
    ELSE [err |-> "ok", v |-> self.iri.iri]

\* lines 45-46: URIRef(str(self.ontology_iri()))
Import_to_rdf(self) ==
    LET r == Import_ontology_iri(self)
    IN  IF r.err # "ok" THEN [err |-> r.err, ret |-> None]
        ELSE [err |-> "ok", ret |-> URIRef(Str(r.v))]

\* lines 158-159: for imp in self.directlyImportsDocuments: g.add(...), stopping
\* at the first import whose to_rdf raises
RECURSIVE AddImports(_, _, _)
AddImports(subject, imps, graph) ==
    IF imps = <<>> THEN [err |-> "ok", g |-> graph]
    ELSE LET r == Import_to_rdf(Head(imps))
         IN  IF r.err # "ok" THEN [err |-> r.err, g |-> graph]
             ELSE AddImports(subject, Tail(imps), graph \cup {<<subject, OWL_imports, r.ret>>})

\* axiom.to_rdf(g): the axiom's own triples, under its own subject
Axiom_to_rdf(axiom) == {<<URIRef(axiom.s), RDF_type, URIRef("owl:Axiom")>>}

\* Annotatable.to_rdf(g): one triple per annotation, on the ontology's subject
Annotatable_to_rdf(subject, anns) ==
    {<<subject, URIRef(anns[p].s), URIRef("value")>> : p \in DOMAIN anns}

\* line 154: self.iri.to_rdf(g) if self.iri else BNode()
OntologySubject(self, n) == IF Truthy(self.iri) THEN IRI_to_rdf(self.iri) ELSE BNode(n + 1)

\* line 157
VersionTriples(self, subject) ==
    IF Truthy(self.version)
    THEN {<<subject, OWL_versionIRI, URIRef(IRI_full_uri(self.version))>>}
    ELSE {}

\* lines 153-163; n is the number of BNode() generated before the call
Ontology_to_rdf(self, graph, n) ==
    LET subject == OntologySubject(self, n)
        n1 == IF Truthy(self.iri) THEN n ELSE n + 1
        g1 == graph \cup {<<subject, RDF_type, OWL_Ontology>>} \cup VersionTriples(self, subject)
        r == AddImports(subject, self.directlyImportsDocuments, g1)
    IN  IF r.err # "ok" THEN [err |-> r.err, g |-> r.g, n |-> n1, ret |-> None]
        ELSE [err |-> "ok",
              g |-> r.g \cup UNION {Axiom_to_rdf(self.axioms[p]) : p \in DOMAIN self.axioms}
                        \cup Annotatable_to_rdf(subject, self.annotations),
              n |-> n1,
              ret |-> subject]

-----------------------------------------------------------------------------
(* Functional-syntax rendering: the writer's output is a sequence of tokens *)

RECURSIVE Ontology_to_functional(_, _)
RECURSIVE Import_to_functional(_, _)
RECURSIVE IterImports(_, _)

\* w + x: an identifier writes its text, a node renders itself into the writer
\* (as OntologyDocument.to_functional relies on, line 212)
WriterAdd(x, w) ==
    IF x = None THEN [err |-> "ok", out |-> Append(w, "None")]
    ELSE IF IsOntology(x) THEN Ontology_to_functional(x, w)
    ELSE [err |-> "ok", out |-> Append(w, x.s)]

\* lines 42-43: w.func(self, lambda: (w + self.iri))
Import_to_functional(self, w) ==
    LET r == WriterAdd(self.iri, Append(w, "Import("))
    IN  IF r.err # "ok" THEN r ELSE [err |-> "ok", out |-> Append(r.out, ")")]

\* w.iter(self.directlyImportsDocuments, indent=False)
IterImports(imps, w) ==
    IF imps = <<>> THEN [err |-> "ok", out |-> w]
    ELSE LET r == Import_to_functional(Head(imps), w)
         IN  IF r.err # "ok" THEN r ELSE IterImports(Tail(imps), Append(r.out, "\n"))

\* w.iter(...) over annotations or axioms: one token and a line break each
IterLeaves(xs) == [p \in 1..(2 * Len(xs)) |-> IF p % 2 = 1 THEN xs[(p + 1) \div 2].s ELSE "\n"]

\* w.opt(v)
WriterOpt(v) == IF v = None THEN <<>> ELSE <<v.s>>

\* w.br(cond)
WriterBr(cond) == IF cond THEN <<"\n">> ELSE <<>>

\* lines 145-146: if self.version and not self.iri: raise ValueError(...)
VersionWithIri(self) == Truthy(self.version) /\ Truthy(self.iri)
VersionWithoutIri(self) == Truthy(self.version) /\ ~Truthy(self.iri)

\* lines 143-151
Ontology_to_functional(self, w) ==
    IF VersionWithoutIri(self) THEN [err |-> "InvalidVersionWithoutIri", out |-> w]
    ELSE LET w1 == Append(w, "Ontology(") \o WriterOpt(self.iri) \o WriterOpt(self.version)
                       \o WriterBr(self.directlyImportsDocuments # <<>>
                                       \/ self.annotations # <<>> \/ self.axioms # <<>>)
             r == IterImports(self.directlyImportsDocuments, w1)
         IN  IF r.err # "ok" THEN r
             ELSE [err |-> "ok",
                   out |-> Append(r.out \o IterLeaves(self.annotations)
                                        \o IterLeaves(self.axioms), ")")]

-----------------------------------------------------------------------------
(* Rendering calls on the Ontology under study and on its imports *)

SelfObj == OntologyObj(iri, version, directlyImportsDocuments, axioms, annotations)

Render(name, on) ==
    /\ pc = "constructed"
    /\ nRenders < MaxRenderCalls
    /\ nRenders' = nRenders + 1
    /\ lastOp' = Op(name, on)
    /\ UNCHANGED <<pc, args, kwargs, ontVars, callVars, docVars>>

\* o.to_functional(w)
to_functional ==
    /\ Render("Ontology.to_functional", 0)
    /\ LET r == Ontology_to_functional(SelfObj, out)
       IN  /\ out' = r.out /\ outBefore' = out
           /\ err' = r.err
           /\ ret' = IF r.err = "ok" THEN [k |-> "ref", to |-> "w"] ELSE None
    /\ UNCHANGED <<g, gBefore, nBNodes>>

\* o.to_rdf(g)
to_rdf ==
    /\ Render("Ontology.to_rdf", 0)
    /\ LET r == Ontology_to_rdf(SelfObj, g, nBNodes)
       IN  /\ g' = r.g /\ gBefore' = g
           /\ nBNodes' = r.n
           /\ err' = r.err
           /\ ret' = r.ret
    /\ UNCHANGED <<out, outBefore>>

\* o.directlyImportsDocuments[i].to_functional(w)
import_to_functional ==
    \E i \in DOMAIN directlyImportsDocuments :
        /\ Render("Import.to_functional", i)
        /\ LET r == Import_to_functional(directlyImportsDocuments[i], out)
           IN  /\ out' = r.out /\ outBefore' = out
               /\ err' = r.err
               /\ ret' = IF r.err = "ok" THEN [k |-> "ref", to |-> "w"] ELSE None
        /\ UNCHANGED <<g, gBefore, nBNodes>>

\* o.directlyImportsDocuments[i].to_rdf(g)
import_to_rdf ==
    \E i \in DOMAIN directlyImportsDocuments :
        /\ Render("Import.to_rdf", i)
        /\ LET r == Import_to_rdf(directlyImportsDocuments[i])
           IN  /\ err' = r.err
               /\ ret' = r.ret
        /\ gBefore' = g
        /\ UNCHANGED <<g, out, outBefore, nBNodes>>

\* o.imports(...) on an Ontology that is then rendered
importsThenRender ==
    /\ Len(calls) < MaxImportsCalls
    /\ imports

AnonOntology == OntologyObj(None, None, <<>>, <<>>, <<>>)
FullOntology ==
    OntologyObj(IRI("d"), IRI("e"), <<Import(IRI("f"))>>, <<Axiom("y")>>, <<Annotation("m")>>)

RenderValues ==
    {IRI("a"), Import(IRI("b")), Import(AnonOntology), Import(FullOntology), Axiom("x")}
RenderKwValues ==
    {[name |-> "version", t |-> "IRI", v |-> <<IRI("v")>>],
     [name |-> "annotations", t |-> "list", v |-> <<Annotation("n")>>]}

InitRender ==
    /\ args \in SeqsUpTo(RenderValues, MaxRenderArgs)
    /\ kwargs \in SeqsUpTo(RenderKwValues, 1)
    /\ InitOnt /\ InitDoc

NextRender ==
    \/ NewOntology
    \/ importsThenRender
    \/ to_functional
    \/ to_rdf
    \/ import_to_functional
    \/ import_to_rdf

SpecRender == InitRender /\ [][NextRender]_vars

-----------------------------------------------------------------------------
(* Rendering contracts *)

\* the Import the last call was made on wraps this
Wrapped == directlyImportsDocuments[lastOp.on].iri

\* the resources that occur in a graph
Nodes(graph) == {t[1] : t \in graph} \cup {t[3] : t \in graph}

\* the last to_rdf call generated its subject afresh, used it and returned it
FreshSubject ==
    /\ ret.k = "BNode"
    /\ ret \notin Nodes(gBefore)
    /\ <<ret, RDF_type, OWL_Ontology>> \in g
    /\ \A t \in g \ gBefore :
           (t[2] \in {OWL_versionIRI, OWL_imports} \/ t[3] = OWL_Ontology) => t[1] = ret

VersionOnly == pc = "constructed" /\ version # None /\ iri = None

ImportIdentifier(imp) ==
    IF IsIRI(imp.iri) THEN imp.iri
    ELSE IF IsOntology(imp.iri) THEN imp.iri.iri
    ELSE None

\* C5 as stated: Import.to_rdf fails with MissingOntologyIri when the Import
\* wraps an aggregate without identifier, and otherwise returns the resource of
\* the wrapped identifier or of the wrapped aggregate's identifier; Ontology.to_rdf
\* adds owl:imports triples only for imports that have an identifier.
C5_AnonymousImportFails ==
    /\ lastOp.op = "Import.to_rdf" =>
           /\ (IsOntology(Wrapped) /\ Wrapped.iri = None) =>
                  (err = "MissingOntologyIri" /\ ret = None)
           /\ IsIRI(Wrapped) => (err = "ok" /\ ret = URIRef(Wrapped.s))
           /\ (IsOntology(Wrapped) /\ Wrapped.iri # None) =>
                  (err = "ok" /\ ret = URIRef(Wrapped.iri.s))
    /\ lastOp.op = "Ontology.to_rdf" =>
           \A t \in g \ gBefore :
               t[2] = OWL_imports =>
                   \E p \in DOMAIN directlyImportsDocuments :
                       /\ ImportIdentifier(directlyImportsDocuments[p]) # None
                       /\ t[3] = URIRef(ImportIdentifier(directlyImportsDocuments[p]).s)

\* the triples the claim lists, for a subject
ListedTriples(subject) ==
    {<<subject, RDF_type, OWL_Ontology>>}
        \cup (IF version # None THEN {<<subject, OWL_versionIRI, URIRef(version.s)>>} ELSE {})
        \cup {<<subject, OWL_imports, URIRef(ImportIdentifier(directlyImportsDocuments[p]).s)>> :
                 p \in {q \in DOMAIN directlyImportsDocuments :
                           ImportIdentifier(directlyImportsDocuments[q]) # None}}

\* C6 as stated: to_rdf on an Ontology without axioms or annotations adds
\* exactly the type triple, the versionIRI triple iff a version is set, and one
\* owl:imports triple per import with the import's identifier, all on one
\* subject (the identifier's resource, else a fresh anonymous node), which it
\* returns.
C6_ExactTriples ==
    (lastOp.op = "Ontology.to_rdf" /\ axioms = <<>> /\ annotations = <<>>) =>
        /\ err = "ok"
        /\ IF iri # None THEN ret = URIRef(iri.s)
           ELSE ret.k = "BNode" /\ ret \notin Nodes(gBefore)
        /\ g = gBefore \cup ListedTriples(ret)
        /\ \A p \in DOMAIN directlyImportsDocuments :
               ImportIdentifier(directlyImportsDocuments[p]) # None

\* C10 as stated: rendering an Import that wraps an Ontology writes and returns
\* the wrapped aggregate's identifier only: to_functional writes the one-child
\* group Import(identifier), to_rdf returns the identifier's resource and adds
\* nothing to the graph.
C10_ImportNotRecursive ==
    (pc = "constructed" /\ lastOp.on # 0 /\ IsOntology(Wrapped) /\ Wrapped.iri # None) =>
        /\ lastOp.op = "Import.to_functional" =>
               (err = "ok" /\ out = outBefore \o <<"Import(", Wrapped.iri.s, ")">>)
        /\ lastOp.op = "Import.to_rdf" =>
               (err = "ok" /\ ret = URIRef(Wrapped.iri.s) /\ g = gBefore)

-----------------------------------------------------------------------------
(* OntologyDocument, lines 166-217 *)

PrefixName(s) == [k |-> "PrefixName", s |-> s]
Prefix(name, fullIRI) == [k |-> "Prefix", prefixName |-> name, fullIRI |-> fullIRI]
\* a Python list passed as one argument
List(xs) == [k |-> "list", v |-> xs]

\* lines 174-183
OntologyDocument_init(prefix, ontologyArg) ==
    IF Len(prefix) = 1 /\ prefix[1].k = "list"
    THEN [prefixDeclarations |-> prefix[1].v, ontology |-> ontologyArg]
    ELSE IF prefix # <<>> /\ IsOntology(prefix[Len(prefix)])
    THEN [prefixDeclarations |-> SubSeq(prefix, 1, Len(prefix) - 1),
          ontology |-> prefix[Len(prefix)]]
    ELSE [prefixDeclarations |-> prefix,
          ontology |-> IF Truthy(ontologyArg) THEN ontologyArg ELSE Ontology_init(<<>>, <<>>).self]

\* doc = OntologyDocument(*prefix, ontology=...)
NewDocument ==
    /\ docpc = "new"
    /\ docpc' = "constructed"
    /\ LET r == OntologyDocument_init(docArgs.prefix, docArgs.ontology)
       IN  /\ prefixDeclarations' = r.prefixDeclarations
           /\ ontology' = r.ontology
    /\ lastOp' = Op("OntologyDocument", 0)
    /\ err' = "ok"
    /\ ret' = [k |-> "ref", to |-> "doc"]
    /\ UNCHANGED <<pc, args, kwargs, ontVars, callVars, renderVars, docArgs, nPrefixCalls>>

\* what every prefix declaration leaves alone, and when one can be made
Declare(name) ==
    /\ docpc = "constructed"
    /\ nPrefixCalls < MaxPrefixCalls
    /\ nPrefixCalls' = nPrefixCalls + 1
    /\ lastOp' = Op(name, 0)
    /\ err' = "ok"
    /\ ret' = None
    /\ UNCHANGED <<pc, args, kwargs, ontVars, callVars, renderVars, docpc, docArgs>>

\* lines 186-187: if dflt: append(Prefix('', dflt))
AppendDefault(decls, dflt) ==
    IF Truthy(dflt) THEN Append(decls, Prefix(PrefixName(""), dflt)) ELSE decls

\* lines 188-189: for ns, iri in prefixes.items(): append(Prefix(PrefixName(ns), iri))
AppendEach(decls, named) ==
    decls \o [p \in DOMAIN named |-> Prefix(PrefixName(named[p].ns), named[p].iri)]

\* lines 185-189: doc.prefixes(dflt, **prefixes)
prefixes ==
    /\ Declare("prefixes")
    /\ \E dflt \in {None, IRI("u")},
          named \in {<<>>, <<[ns |-> "ex", iri |-> IRI("u")]>>} :
           prefixDeclarations' = AppendEach(AppendDefault(prefixDeclarations, dflt), named)
    /\ UNCHANGED ontology

\* lines 191-196: setattr(doc, key, value), for a key that starts with no '_'
\* and is not 'prefixDeclarations'
setattr ==
    /\ Declare("__setattr__")
    /\ \E key \in {"ex", "rdf", "", "ontology"} :
        IF key = "ontology"
        THEN /\ ontology' = OntologyObj(IRI("a"), None, <<>>, <<>>, <<>>)
             /\ UNCHANGED prefixDeclarations
        ELSE /\ prefixDeclarations' =
                    Append(prefixDeclarations,
                           Prefix(IF key # "" THEN PrefixName(key) ELSE None, IRI("u")))
             /\ UNCHANGED ontology

\* lines 214-217: doc.to_rdf(g); the prefixes add no triple
doc_to_rdf ==
    /\ docpc = "constructed"
    /\ nRenders < MaxRenderCalls
    /\ nRenders' = nRenders + 1
    /\ lastOp' = Op("OntologyDocument.to_rdf", 0)
    /\ gBefore' = g
    /\ IF ontology = None
       THEN /\ err' = "AttributeError"
            /\ ret' = None
            /\ UNCHANGED <<g, nBNodes>>
       ELSE LET r == Ontology_to_rdf(ontology, g, nBNodes)
            IN  /\ err' = r.err
                /\ ret' = r.ret
                /\ g' = r.g
                /\ nBNodes' = r.n
    /\ UNCHANGED <<pc, args, kwargs, ontVars, callVars, out, outBefore, docVars>>

DocValues ==
    {Prefix(PrefixName("ex"), IRI("u")), Prefix(PrefixName(""), IRI("w")),
     List(<<Prefix(PrefixName("ex"), IRI("u"))>>),
     OntologyObj(IRI("a"), None, <<>>, <<Axiom("x")>>, <<>>)}

DocOntologyArgs == {None, OntologyObj(IRI("b"), IRI("v"), <<Import(IRI("c"))>>, <<>>, <<>>)}

\* the three forms of the call: one list of prefixes; prefixes and a last
\* positional Ontology; prefixes only. The prefixes given have pairwise
\* distinct short names.
DocCallForm(prefix) ==
    /\ \A i \in DOMAIN prefix :
           \/ prefix[i].k = "Prefix"
           \/ prefix[i].k = "list" /\ Len(prefix) = 1
           \/ IsOntology(prefix[i]) /\ i = Len(prefix)
    /\ \A i, j \in DOMAIN prefix :
           (i # j /\ prefix[i].k = "Prefix" /\ prefix[j].k = "Prefix")
               => prefix[i].prefixName # prefix[j].prefixName

InitDocCall ==
    /\ args = <<>> /\ kwargs = <<>>
    /\ InitOnt
    /\ docpc = "new"
    /\ prefixDeclarations = <<>>
    /\ ontology = None
    /\ nPrefixCalls = 0
    /\ docArgs \in {[prefix |-> p, ontology |-> o] :
                        p \in {q \in SeqsUpTo(DocValues, MaxDocArgs) : DocCallForm(q)},
                        o \in DocOntologyArgs}

NextDoc ==
    \/ NewDocument
    \/ prefixes
    \/ setattr
    \/ doc_to_rdf

SpecDoc == InitDocCall /\ [][NextDoc]_vars

\* C8 as stated: a constructed Document holds an Ontology in its ontology slot,
\* never None; built without an ontology it holds the empty anonymous Ontology;
\* so to_rdf can delegate to it.
C8_DocumentHoldsOntology ==
    docpc = "constructed" =>
        /\ ontology # None /\ IsOntology(ontology)
        /\ (lastOp.op = "OntologyDocument" /\ docArgs.ontology = None
                /\ \A p \in DOMAIN docArgs.prefix : ~IsOntology(docArgs.prefix[p])) =>
               ontology = OntologyObj(None, None, <<>>, <<>>, <<>>)
        /\ lastOp.op = "OntologyDocument.to_rdf" => err # "AttributeError"

\* C9 as stated: the short names of the entries of a Document's prefix table
\* are pairwise distinct, after construction and after any prefix declarations.
C9_PrefixNamesDistinct ==
    docpc = "constructed" =>
        \A i, j \in DOMAIN prefixDeclarations :
            i # j => prefixDeclarations[i].prefixName # prefixDeclarations[j].prefixName

====
